---------------------------- MODULE Spec2Model ----------------------------
(***************************************************************************)
(* Mini-Alexa (src/app.py): a Flask endpoint POST /ask that routes a chat  *)
(* message either to a hand-coded command parser (parse_command) or to the *)
(* Gemini API (ask_gemini_short).                                          *)
(*                                                                         *)
(* A Python str is a sequence of one-character strings.  The typographic   *)
(* quotes and apostrophes of the source's message literals are written     *)
(* with their ASCII look-alikes, which the module syntax requires.         *)
(***************************************************************************)
EXTENDS Integers, Sequences, FiniteSets, TLC

VARIABLES
    pc,          \* the process: "boot", "serving" or "crashed"
    credential,  \* TRUE iff GEMINI_API_KEY is in the environment
    client,      \* the module-level genai client: "unset", "ready" or "nokey"
    heap,        \* the dict objects reachable from module level, by name
    served,      \* history: requests handled, and those that matched a command
    request,     \* the inputs of the last request handled
    response,    \* the response to the last request handled
    trace,       \* what the last request called: parse_command, ask_gemini_short
    ptext,       \* the argument of a direct call of parse_command
    presult      \* the value that call returned

vars == <<pc, credential, client, heap, served, request, response, trace,
          ptext, presult>>

\* --------------------------------------------------------------- bounds

\* Longest run of generated whitespace between the words of an input.
MaxGap == 2

\* Requests one behaviour of the service handles.
MaxServed == 2

\* ------------------------------------------------------------ str basics

Upper == <<"A","B","C","D","E","F","G","H","I","J","K","L","M","N","O","P","Q","R","S","T","U","V","W","X","Y","Z">>

Lower == <<"a","b","c","d","e","f","g","h","i","j","k","l","m","n","o","p","q","r","s","t","u","v","w","x","y","z">>

Digits == <<"0","1","2","3","4","5","6","7","8","9">>

\* The whitespace of str.strip() and of \s (the vertical tab has no escape here).
Whitespace == {" ", "\t", "\n", "\r", "\f"}

LowerOf == [c \in {Upper[i] : i \in 1..26} |-> Lower[CHOOSE i \in 1..26 : Upper[i] = c]]

DigitOf == [c \in {Digits[i] : i \in 1..10} |-> (CHOOSE i \in 1..10 : Digits[i] = c) - 1]

LowerChar(c) == IF c \in DOMAIN LowerOf THEN LowerOf[c] ELSE c

IsSpace(c) == c \in Whitespace

IsDigit(c) == c \in DOMAIN DigitOf

SetMin(S) == CHOOSE x \in S : \A y \in S : x <= y

SetMax(S) == CHOOSE x \in S : \A y \in S : x >= y

\* str.lower()
lower(s) == [i \in 1..Len(s) |-> LowerChar(s[i])]

\* str.strip()
strip(s) ==
    LET keep == {i \in 1..Len(s) : ~IsSpace(s[i])}
    IN  IF keep = {} THEN <<>> ELSE SubSeq(s, SetMin(keep), SetMax(keep))

\* sub in s
Contains(s, sub) ==
    \E i \in 1..(Len(s) - Len(sub) + 1) : SubSeq(s, i, i + Len(sub) - 1) = sub

\* s.startswith(pre)
StartsWith(s, pre) == Len(s) >= Len(pre) /\ SubSeq(s, 1, Len(pre)) = pre

\* s[n:]
SliceFrom(s, n) == SubSeq(s, n + 1, Len(s))

\* int(s) of a run of decimal digits
RECURSIVE int(_)
int(s) == IF s = <<>> THEN 0
          ELSE 10 * int(SubSeq(s, 1, Len(s) - 1)) + DigitOf[s[Len(s)]]

\* str(n), as an f-string formats a non-negative int
RECURSIVE str(_)
str(n) == IF n < 10 THEN <<Digits[n + 1]>>
          ELSE str(n \div 10) \o <<Digits[(n % 10) + 1]>>

\* ------------------------------------------------------- re.search parts

\* The length of the run of whitespace (\s) that starts at p.
WsRun(s, p) ==
    LET stops == {q \in p..Len(s) : ~IsSpace(s[q])}
    IN  IF stops = {} THEN (IF p > Len(s) THEN 0 ELSE Len(s) - p + 1)
        ELSE SetMin(stops) - p

\* The length of the run of digits (\d) that starts at p.
DigitRun(s, p) ==
    LET stops == {q \in p..Len(s) : ~IsDigit(s[q])}
    IN  IF stops = {} THEN (IF p > Len(s) THEN 0 ELSE Len(s) - p + 1)
        ELSE SetMin(stops) - p

\* The last position of the run of non-newline characters (.) that starts at p,
\* p - 1 when there is none.
DotEnd(s, p) ==
    LET stops == {q \in p..Len(s) : s[q] = "\n"}
    IN  IF stops = {} THEN (IF p > Len(s) THEN p - 1 ELSE Len(s))
        ELSE SetMin(stops) - 1

\* A literal of the pattern (given in lower case) matches at p under re.IGNORECASE.
LitAt(s, p, lit) ==
    /\ p >= 1
    /\ p + Len(lit) - 1 <= Len(s)
    /\ \A k \in 1..Len(lit) : LowerChar(s[p + k - 1]) = lit[k]

NoMatch == [matched |-> FALSE]

\* \s+on\s+youtube matches at p: the positions right after each such match.
PlayTailAt(s, p) ==
    \E n1 \in 1..WsRun(s, p) :
        /\ LitAt(s, p + n1, <<"o","n">>)
        /\ \E n2 \in 1..WsRun(s, p + n1 + 2) :
               LitAt(s, p + n1 + 2 + n2, <<"y","o","u","t","u","b","e">>)

\* The ways play\s+(.+?)\s+on\s+youtube matches at i: <<k, e>> with k the
\* whitespace the first \s+ takes and e the last position of group 1.
PlayCaps(s, i) ==
    IF ~LitAt(s, i, <<"p","l","a","y">>) THEN {}
    ELSE {c \in (1..WsRun(s, i + 4)) \X ((i + 5)..Len(s)) :
            /\ c[2] >= i + 4 + c[1]
            /\ DotEnd(s, i + 4 + c[1]) >= c[2]
            /\ PlayTailAt(s, c[2] + 1)}

\* re.search(r"play\s+(.+?)\s+on\s+youtube", s, re.IGNORECASE): the leftmost
\* start; there the greedy \s+ keeps the most it can, then the lazy group the
\* least.
re_search_play(s) ==
    LET starts == {i \in 1..Len(s) : PlayCaps(s, i) # {}}
    IN  IF starts = {} THEN NoMatch
        ELSE LET i == SetMin(starts)
                 caps == PlayCaps(s, i)
                 k == SetMax({c[1] : c \in caps})
                 e == SetMin({c[2] : c \in {d \in caps : d[1] = k}})
             IN  [matched |-> TRUE, g1 |-> SubSeq(s, i + 4 + k, e)]

\* remind me in (\d+)\s+minutes?\s+to matches at i: <<d, q>> with d the digits
\* group 1 takes and q the position right after "to".
RemindHeads(s, i) ==
    IF ~LitAt(s, i, <<"r","e","m","i","n","d"," ","m","e"," ","i","n"," ">>) THEN {}
    ELSE {h \in (1..DigitRun(s, i + 13)) \X ((i + 14)..(Len(s) + 1)) :
            \E n1 \in 1..WsRun(s, i + 13 + h[1]) :
            \E opt \in {0, 1} :
                LET m == i + 13 + h[1] + n1
                    after == m + 6 + opt
                IN  /\ LitAt(s, m, <<"m","i","n","u","t","e">>)
                    /\ opt = 1 => LitAt(s, m + 6, <<"s">>)
                    /\ \E n2 \in 1..WsRun(s, after) :
                           /\ LitAt(s, after + n2, <<"t","o">>)
                           /\ h[2] = after + n2 + 2}

\* \s+(.+) matches at q: the whitespace counts k the \s+ may take.
RemindTails(s, q) ==
    {k \in 1..WsRun(s, q) : DotEnd(s, q + k) >= q + k}

RemindCaps(s, i) ==
    {h \in RemindHeads(s, i) : RemindTails(s, h[2]) # {}}

\* The search with a lazy last group, (.+?): group 2 stops at its first
\* character.
re_search_remind_lazy(s) ==
    LET starts == {i \in 1..Len(s) : RemindCaps(s, i) # {}}
    IN  IF starts = {} THEN NoMatch
        ELSE LET i == SetMin(starts)
                 caps == RemindCaps(s, i)
                 d == SetMax({h[1] : h \in caps})
                 q == SetMax({h[2] : h \in {c \in caps : c[1] = d}})
                 k == SetMax(RemindTails(s, q))
             IN  [matched |-> TRUE,
                  g1 |-> SubSeq(s, i + 13, i + 12 + d),
                  g2 |-> SubSeq(s, q + k, q + k)]

\* re.search(r"remind me in (\d+)\s+minutes?\s+to\s+(.+)", s, re.IGNORECASE):
\* the leftmost start; every quantifier is greedy, so group 1 is the longest
\* digit run that lets the rest match, the \s+ before group 2 keeps the most
\* whitespace it can and group 2 runs to the end of its line.
re_search_remind(s) ==
    LET starts == {i \in 1..Len(s) : RemindCaps(s, i) # {}}
    IN  IF starts = {} THEN NoMatch
        ELSE LET i == SetMin(starts)
                 caps == RemindCaps(s, i)
                 d == SetMax({h[1] : h \in caps})
                 q == SetMax({h[2] : h \in {c \in caps : c[1] = d}})
                 k == SetMax(RemindTails(s, q))
             IN  [matched |-> TRUE,
                  g1 |-> SubSeq(s, i + 13, i + 12 + d),
                  g2 |-> SubSeq(s, q + k, DotEnd(s, q + k))]

\* ------------------------------------------------------------ the dicts

\* The heap before any dict has been made.
EmptyHeap == [k \in {} |-> <<>>]

\* parse_command's "no special action found".
None == [type |-> "None"]

\* A reference to no dict.
NoneRef == "None"

\* The dict displays hoisted to module level: one dict per site, made at the
\* first use and handed out again at every later one.
dict_shared(h, site, d) ==
    IF site \in DOMAIN h THEN [ref |-> site, heap |-> h]
    ELSE [ref |-> site, heap |-> (site :> d) @@ h]

\* A dict display {...} evaluated at `site`: a new dict each time it is
\* evaluated, held only by the local name that receives it.
dict_literal(h, site, d) == [ref |-> "local", heap |-> ("local" :> d) @@ h]

\* The dict a reference names (None for the None reference).
Deref(r) == IF r.ref = NoneRef THEN None ELSE r.heap[r.ref]

\* The objects that outlive a call: the locals of the frame are dropped.
DropLocals(h) == [k \in (DOMAIN h) \ {"local"} |-> h[k]]

\* ---------------------------------------------------- message literals

MsgYouTube == <<"O","p","e","n","i","n","g"," ","Y","o","u","T","u","b","e"," ","i","n"," ","a"," ","n","e","w"," ","t","a","b",".">>

MsgGoogle == <<"O","p","e","n","i","n","g"," ","G","o","o","g","l","e"," ","s","e","a","r","c","h",".">>

MsgChatGPT == <<"O","p","e","n","i","n","g"," ","C","h","a","t","G","P","T",".">>

MsgWhatsApp == <<"O","p","e","n","i","n","g"," ","W","h","a","t","s","A","p","p"," ","W","e","b",".">>

MsgChrome == <<"I"," ","c","a","n","'","t"," ","o","p","e","n"," ","d","e","s","k","t","o","p"," ","a","p","p","s"," ","d","i","r","e","c","t","l","y",","," ","b","u","t"," ","I","'","v","e"," ","o","p","e","n","e","d"," ","G","o","o","g","l","e"," ","i","n"," ","y","o","u","r"," ","b","r","o","w","s","e","r",".">>

\* f"Searching YouTube for <query>."
MsgSearching(query) ==
    <<"S","e","a","r","c","h","i","n","g"," ","Y","o","u","T","u","b","e"," ","f","o","r"," ","\"">>
    \o query \o <<"\"",".">>

\* f"Playing <query> on YouTube (search tab opened)."
MsgPlaying(query) ==
    <<"P","l","a","y","i","n","g"," ","\"">> \o query
    \o <<"\""," ","o","n"," ","Y","o","u","T","u","b","e"," ","(","s","e","a","r","c","h"," ","t","a","b"," ","o","p","e","n","e","d",")",".">>

\* f"Okay, I'll set a reminder in {minutes} minute(s) to {reminder_text}. "
\* "Keep this tab open so the alert can fire."
MsgReminder(minutes, reminder_text) ==
    <<"O","k","a","y",","," ","I","'","l","l"," ","s","e","t"," ","a"," ","r","e","m","i","n","d","e","r"," ","i","n"," ">>
    \o str(minutes) \o <<" ","m","i","n","u","t","e","(","s",")"," ","t","o"," ">>
    \o reminder_text \o <<"."," ">>
    \o <<"K","e","e","p"," ","t","h","i","s"," ","t","a","b"," ","o","p","e","n"," ","s","o"," ","t","h","e"," ","a","l","e","r","t"," ","c","a","n"," ","f","i","r","e",".">>

\* --------------------------------------------------------- parse_command

\* parse_command with the two play rules tried before the open rules.
parse_command_play_first(h, user_text) ==
    LET text == strip(user_text)
        low == lower(text)
        m_play == re_search_play(text)
        m_remind == re_search_remind(text)
    IN  IF m_play.matched
        THEN LET query == strip(m_play.g1)
             IN  dict_literal(h, "L112", [type |-> "search_youtube",
                     query |-> query, message |-> MsgSearching(query)])
        ELSE IF /\ StartsWith(low, <<"p","l","a","y"," ">>)
                /\ strip(SliceFrom(text, 5)) # <<>>
        THEN LET query == strip(SliceFrom(text, 5))
             IN  dict_literal(h, "L122", [type |-> "search_youtube",
                     query |-> query, message |-> MsgPlaying(query)])
        ELSE IF Contains(low, <<"o","p","e","n"," ","y","o","u","t","u","b","e">>)
        THEN dict_literal(h, "L72", [type |-> "open_url",
                 url |-> "https://www.youtube.com/", message |-> MsgYouTube])
        ELSE IF Contains(low, <<"o","p","e","n"," ","g","o","o","g","l","e">>)
        THEN dict_literal(h, "L79", [type |-> "open_url",
                 url |-> "https://www.google.com/", message |-> MsgGoogle])
        ELSE IF Contains(low, <<"o","p","e","n"," ","c","h","a","t","g","p","t">>)
        THEN dict_literal(h, "L86", [type |-> "open_url",
                 url |-> "https://chatgpt.com/", message |-> MsgChatGPT])
        ELSE IF Contains(low, <<"o","p","e","n"," ","w","h","a","t","s","a","p","p">>)
        THEN dict_literal(h, "L93", [type |-> "open_url",
                 url |-> "https://web.whatsapp.com/", message |-> MsgWhatsApp])
        ELSE IF Contains(low, <<"o","p","e","n"," ","c","h","r","o","m","e">>)
        THEN dict_literal(h, "L102", [type |-> "open_url",
                 url |-> "https://www.google.com/", message |-> MsgChrome])
        ELSE IF m_remind.matched
        THEN LET minutes == int(m_remind.g1)
                 reminder_text == strip(m_remind.g2)
             IN  dict_literal(h, "L136", [type |-> "set_reminder",
                     delay_minutes |-> minutes, text |-> reminder_text,
                     message |-> MsgReminder(minutes, reminder_text)])
        ELSE [ref |-> NoneRef, heap |-> h]

\* parse_command(user_text), run on heap h: the reference it returns (NoneRef
\* for None) and the heap after it.
parse_command(h, user_text) ==
    LET text == strip(user_text)
        low == lower(text)
        m_play == re_search_play(text)
        m_remind == re_search_remind(text)
    IN  IF Contains(low, <<"o","p","e","n"," ","y","o","u","t","u","b","e">>)
        THEN dict_literal(h, "L72", [type |-> "open_url",
                 url |-> "https://www.youtube.com/", message |-> MsgYouTube])
        ELSE IF Contains(low, <<"o","p","e","n"," ","g","o","o","g","l","e">>)
        THEN dict_literal(h, "L79", [type |-> "open_url",
                 url |-> "https://www.google.com/", message |-> MsgGoogle])
        ELSE IF Contains(low, <<"o","p","e","n"," ","c","h","a","t","g","p","t">>)
        THEN dict_literal(h, "L86", [type |-> "open_url",
                 url |-> "https://chatgpt.com/", message |-> MsgChatGPT])
        ELSE IF \/ Contains(low, <<"o","p","e","n"," ","w","h","a","t","s","a","p","p">>)
                \/ Contains(low, <<"o","p","e","n"," ","w","h","a","t","s","a","p","p"," ","w","e","b">>)
        THEN dict_literal(h, "L93", [type |-> "open_url",
                 url |-> "https://web.whatsapp.com/", message |-> MsgWhatsApp])
        ELSE IF Contains(low, <<"o","p","e","n"," ","c","h","r","o","m","e">>)
        THEN dict_literal(h, "L102", [type |-> "open_url",
                 url |-> "https://www.google.com/", message |-> MsgChrome])
        ELSE IF m_play.matched
        THEN LET query == strip(m_play.g1)
             IN  dict_literal(h, "L112", [type |-> "search_youtube",
                     query |-> query, message |-> MsgSearching(query)])
        ELSE IF /\ StartsWith(low, <<"p","l","a","y"," ">>)
                /\ strip(SliceFrom(text, 5)) # <<>>
        THEN LET query == strip(SliceFrom(text, 5))
             IN  dict_literal(h, "L122", [type |-> "search_youtube",
                     query |-> query, message |-> MsgPlaying(query)])
        ELSE IF m_remind.matched
        THEN LET minutes == int(m_remind.g1)
                 reminder_text == strip(m_remind.g2)
             IN  dict_literal(h, "L136", [type |-> "set_reminder",
                     delay_minutes |-> minutes, text |-> reminder_text,
                     message |-> MsgReminder(minutes, reminder_text)])
        ELSE [ref |-> NoneRef, heap |-> h]

\* ------------------------------------------- inputs of parse_command

RECURSIVE SeqsUpTo(_, _)
\* The sequences over S of length at most n.
SeqsUpTo(S, n) ==
    IF n = 0 THEN {<<>>}
    ELSE LET r == SeqsUpTo(S, n - 1)
         IN  r \cup {Append(q, c) : q \in r, c \in S}

\* Runs of blanks and line breaks, none to MaxGap long.
Gaps == SeqsUpTo({" ", "\n"}, MaxGap)

SmallGaps == {<<>>, <<" ">>}

W_play == <<"p","l","a","y">>

W_on == <<"o","n">>

W_youtube == <<"y","o","u","t","u","b","e">>

W_to == <<"t","o">>

W_remind == <<"r","e","m","i","n","d"," ","m","e"," ","i","n">>

OpenTexts ==
    { <<"o","p","e","n"," ","y","o","u","t","u","b","e">>,
      <<"O","P","E","N"," ","Y","O","U","T","U","B","E">>,
      <<"O","p","e","n"," ","Y","o","u","T","u","b","e">>,
      <<"o","p","e","n"," "," ","y","o","u","t","u","b","e">>,
      <<"o","p","e","n","y","o","u","t","u","b","e">>,
      <<"O","p","e","n"," ","G","o","o","g","l","e">>,
      <<"o","p","e","n"," ","c","h","a","t","g","p","t">>,
      <<"o","p","e","n"," ","W","h","a","t","s","A","p","p">>,
      <<"o","p","e","n"," ","w","h","a","t","s","a","p","p"," ","w","e","b">>,
      <<"o","p","e","n"," ","c","h","r","o","m","e">> }

\* Text around a command, some of it a command of a later rule.
Surround ==
    { <<>>, <<" ">>, <<"x">>, <<"p","l","e","a","s","e"," ">>,
      <<"o","p","e","n"," ","c","h","r","o","m","e">>,
      <<"p","l","a","y"," ","a"," ","o","n"," ","y","o","u","t","u","b","e">>,
      <<"P","l","a","y"," ","b">>,
      <<"r","e","m","i","n","d"," ","m","e"," ","i","n"," ","5"," ","m","i","n","u","t","e","s"," ","t","o"," ","c">> }

OpenInputs == {a \o o \o b : a \in Surround, o \in OpenTexts, b \in Surround}

\* What stands for X in "play X on youtube".
PlayQueries ==
    { <<>>, <<"a">>, <<"a"," ","b">>, <<"a","\n","b">>, <<"o","n">> }

PlayInputs ==
    {a \o w \o g1 \o x \o t :
        a \in {<<>>, <<"x"," ">>},
        w \in {W_play, <<"P","L","a","y">>},
        g1 \in Gaps,
        x \in PlayQueries,
        t \in {<<>>} \cup {g2 \o W_on \o g3 \o W_youtube :
                              g2 \in Gaps, g3 \in SmallGaps}}

RemindInputs ==
    {a \o r \o g0 \o n \o g1 \o u \o g2 \o W_to \o g3 \o t :
        a \in {<<>>, <<"x"," ">>},
        r \in {W_remind, <<"R","e","m","i","n","d"," ","M","e"," ","I","n">>},
        g0 \in SmallGaps,
        n \in {<<>>, <<"1","0">>, <<"0","5">>},
        g1 \in {<<" ">>, <<"\t"," ">>},
        u \in {<<"m","i","n","u","t","e">>, <<"m","i","n","u","t","e","s">>,
               <<"m","i","n","s">>},
        g2 \in SmallGaps,
        g3 \in Gaps,
        t \in {<<>>, <<"s","t","u","d","y">>, <<"a"," ","b">>, <<"x","\n","y">>}}

OtherInputs ==
    { <<>>, <<" ">>, <<"h","e","l","l","o">>,
      <<"w","h","a","t"," ","t","i","m","e"," ","i","s"," ","i","t","?">>,
      <<"p","l","a","y"," ","s","h","a","p","e"," ","o","f"," ","y","o","u"," ","o","n"," ","y","o","u","t","u","b","e">>,
      <<"p","l","a","y"," ","l","o","f","i"," ","b","e","a","t","s">>,
      <<"r","e","m","i","n","d"," ","m","e"," ","i","n"," ","1","0"," ","m","i","n","u","t","e","s"," ","t","o"," ","s","t","u","d","y">>,
      <<"d","i","s","p","l","a","y"," ","a"," ","o","n"," ","y","o","u","t","u","b","e">>,
      <<"P","l","a","y","\t","b">>,
      <<" ","p","l","a","y"," ","a"," ">> }

ParseInputs == OpenInputs \cup PlayInputs \cup RemindInputs \cup OtherInputs

\* ------------------------------------ parse_command as a pure function

\* No call yet.
NotRun == [type |-> "NotRun"]

Idle ==
    /\ pc = "boot"
    /\ credential = TRUE
    /\ client = "unset"
    /\ heap = EmptyHeap
    /\ served = [total |-> 0, commands |-> 0]
    /\ request = [body |-> [other |-> <<>>]]
    /\ response = [status |-> 0]
    /\ trace = [parse |-> 0, gemini |-> 0]

InitParse ==
    /\ Idle
    /\ ptext \in ParseInputs
    /\ presult = NotRun

\* One call parse_command(ptext).
Parse ==
    /\ presult = NotRun
    /\ presult' = Deref(parse_command(EmptyHeap, ptext))
    /\ UNCHANGED <<pc, credential, client, heap, served, request, response,
                   trace, ptext>>

NextParse == Parse

SpecParse == InitParse /\ [][NextParse]_vars

\* ------------------------------------------------------ ask_gemini_short

Fallback == <<"Y","a","a","r"," ","a","b","h","i"," ","m","e","r","a"," ","A","I"," ","b","r","a","i","n"," ","c","o","n","n","e","c","t"," ","n","a","h","i"," ","h","o"," ","p","a","a"," ","r","a","h","a",","," ","t","h","o","d","i"," ","d","e","r"," ","b","a","a","d"," ","t","r","y"," ","k","a","r","o",".">>

\* What the body of the try block does with the outcome `out` of
\* client.models.generate_content: a returned response whose .text is a str
\* gives response.text.strip(); the call raising, or a response whose .text is
\* None (None has no strip), raises out of the block.
gemini_try(out) ==
    IF out.kind = "text" THEN [raised |-> "", value |-> strip(out.text)]
    ELSE IF out.kind = "none_text" THEN [raised |-> "AttributeError"]
    ELSE [raised |-> out.exc]

\* ask_gemini_short catching only the errors of the API call.
ask_gemini_short_narrow(user_text, out) ==
    LET r == gemini_try(out)
    IN  IF r.raised = "APIError" THEN [raised |-> "", value |-> Fallback]
        ELSE r

\* ask_gemini_short(user_text) when generate_content ends as `out`: except
\* Exception catches whatever the block raised and returns the fallback.
\* The prompt built from user_text only travels to the service.
ask_gemini_short(user_text, out) ==
    LET r == gemini_try(out)
    IN  IF r.raised = "" THEN r ELSE [raised |-> "", value |-> Fallback]

\* ------------------------------------------------------------------ ask

RetryReply == <<"I"," ","d","i","d","n","'","t"," ","c","a","t","c","h"," ","t","h","a","t","."," ","C","a","n"," ","y","o","u"," ","t","y","p","e"," ","o","r"," ","s","a","y"," ","i","t"," ","a","g","a","i","n","?">>

\* Two decimal digits, zero padded.
TwoDigits(n) == <<Digits[(n \div 10) + 1], Digits[(n % 10) + 1]>>

\* datetime.now().strftime("%I:%M %p") at the clock reading `now`.
strftime_I_M_p(now) ==
    LET h12 == IF now.hour % 12 = 0 THEN 12 ELSE now.hour % 12
    IN  TwoDigits(h12) \o <<":">> \o TwoDigits(now.minute) \o <<" ">>
        \o (IF now.hour < 12 THEN <<"A","M">> ELSE <<"P","M">>)

\* dict.pop(key) on d: the dict left.
pop(d, key) == [k \in (DOMAIN d) \ {key} |-> d[k]]

\* The response Flask gives when the view raises.
ServerError == [status |-> 500]

\* The branch returning the reply alone.
ask_command_no_action(p) ==
    IF "message" \notin DOMAIN p.heap[p.ref]
    THEN [response |-> ServerError, heap |-> p.heap]
    ELSE [response |-> [status |-> 200, reply |-> p.heap[p.ref].message],
          heap |-> [p.heap EXCEPT ![p.ref] = pop(p.heap[p.ref], "message")]]

\* The branch `if cmd:` of ask, cmd being the dict p.ref names on p.heap:
\* message = cmd.pop("message"), then the response with the dict as action.
ask_command(p) ==
    IF "message" \notin DOMAIN p.heap[p.ref]
    THEN [response |-> ServerError, heap |-> p.heap]
    ELSE [response |-> [status |-> 200, reply |-> p.heap[p.ref].message,
                        action |-> pop(p.heap[p.ref], "message")],
          heap |-> [p.heap EXCEPT ![p.ref] = pop(p.heap[p.ref], "message")]]

\* The time extra given when the lowered message has "time" or "?".
time_extra_or(answer, low, now) ==
    IF Contains(low, <<"t","i","m","e">>) \/ Contains(low, <<"?">>)
    THEN answer
         \o <<" ","(","B","y"," ","t","h","e"," ","w","a","y",","," ","c","u","r","r","e","n","t"," ","l","o","c","a","l"," ","t","i","m","e"," ","i","s"," ">>
         \o strftime_I_M_p(now) \o <<".",")">>
    ELSE answer

\* The time extra: answer, with the local time appended when the lowered
\* message has both "time" and "?".
time_extra(answer, low, now) ==
    IF Contains(low, <<"t","i","m","e">>) /\ Contains(low, <<"?">>)
    THEN answer
         \o <<" ","(","B","y"," ","t","h","e"," ","w","a","y",","," ","c","u","r","r","e","n","t"," ","l","o","c","a","l"," ","t","i","m","e"," ","i","s"," ">>
         \o strftime_I_M_p(now) \o <<".",")">>
    ELSE answer

\* The response of the rest of ask, r being what ask_gemini_short came to.
chat_response(r, user_message, now) ==
    IF r.raised # "" THEN ServerError
    ELSE [status |-> 200,
          reply |-> time_extra(r.value, lower(user_message), now)]

\* The rest of ask: the Gemini answer and the time extra.
ask_chat(user_message, out, now) ==
    chat_response(ask_gemini_short(user_message, out), user_message, now)

\* The view once it holds the result of its branch: the locals go.
ask_return(c, parse, gemini) ==
    [response |-> c.response, heap |-> DropLocals(c.heap),
     trace |-> [parse |-> parse, gemini |-> gemini]]

\* ask past the empty check, p being what parse_command returned.
ask_route(p, user_message, out, now) ==
    IF p.ref # NoneRef /\ DOMAIN p.heap[p.ref] # {}
    THEN ask_return(ask_command(p), 1, 0)
    ELSE ask_return([response |-> ask_chat(user_message, out, now),
                     heap |-> p.heap], 1, 1)

\* ask with user_message = data.get("message", "").strip().
ask_message(h, user_message, out, now) ==
    IF user_message = <<>>
    THEN [response |-> [status |-> 200, reply |-> RetryReply],
          heap |-> h, trace |-> [parse |-> 0, gemini |-> 0]]
    ELSE ask_route(parse_command(h, user_message), user_message, out, now)

\* ask testing the message for emptiness before trimming it.
ask_untrimmed(h, data, out, now) ==
    IF (IF "message" \in DOMAIN data THEN data.message ELSE <<>>) = <<>>
    THEN [response |-> [status |-> 200, reply |-> RetryReply],
          heap |-> h, trace |-> [parse |-> 0, gemini |-> 0]]
    ELSE ask_route(parse_command(h, strip(data.message)),
                   strip(data.message), out, now)

\* ask() on heap h for the JSON body `data`, with generate_content ending as
\* `out` if it is called and the clock reading `now`: the response, the heap
\* left when the view has returned, and the calls made.
ask(h, data, out, now) ==
    ask_message(h,
        strip(IF "message" \in DOMAIN data THEN data.message ELSE <<>>),
        out, now)

\* ------------------------------------------------------------ the service

\* genai.Client() at import: with the key in the environment a usable client.
\* Without it the library, which is not part of the repository, either
\* raises or builds a client whose every call fails.
genai_Client(key) == IF key THEN {"ready"} ELSE {"raise", "nokey"}

\* How a generate_content call on the client can end.
Outcomes(c) ==
    IF c = "ready"
    THEN { [kind |-> "text", text |-> <<" ","H","a","a","n","!","\n">>],
           [kind |-> "text", text |-> <<>>],
           [kind |-> "raise", exc |-> "APIError"],
           [kind |-> "none_text"] }
    ELSE { [kind |-> "raise", exc |-> "APIError"] }

Clocks == { [hour |-> 0, minute |-> 5], [hour |-> 12, minute |-> 0],
            [hour |-> 23, minute |-> 59] }

AskMessages ==
    { <<>>, <<" ","\n">>,
      <<"O","P","E","N"," ","Y","o","u","t","u","b","e">>,
      <<" ","o","p","e","n"," ","c","h","r","o","m","e"," ">>,
      <<"p","l","a","y"," ","a"," ","o","n"," ","y","o","u","t","u","b","e">>,
      <<"p","l","a","y"," ","b">>,
      <<"r","e","m","i","n","d"," ","m","e"," ","i","n"," ","1","0"," ","m","i","n","u","t","e","s"," ","t","o"," ","s","t","u","d","y">>,
      <<"h","e","l","l","o">>,
      <<"w","h","a","t"," ","t","i","m","e"," ","i","s"," ","i","t","?">>,
      <<"T","I","M","E","?">>,
      <<"t","i","m","e">>,
      <<"w","h","y","?">> }

\* The JSON bodies of POST /ask: an object with a message, or without one.
Bodies == {[message |-> m] : m \in AskMessages} \cup {[other |-> <<>>]}

Init ==
    /\ pc = "boot"
    /\ credential \in BOOLEAN
    /\ client = "unset"
    /\ heap = EmptyHeap
    /\ served = [total |-> 0, commands |-> 0]
    /\ request = [body |-> [other |-> <<>>]]
    /\ response = [status |-> 0]
    /\ trace = [parse |-> 0, gemini |-> 0]
    /\ ptext = <<>>
    /\ presult = NotRun

\* Importing the module: load_dotenv(), client = genai.Client(), app = Flask().
Start ==
    /\ pc = "boot"
    /\ \E c \in genai_Client(credential) :
           IF c = "raise"
           THEN pc' = "crashed" /\ client' = client
           ELSE pc' = "serving" /\ client' = c
    /\ UNCHANGED <<credential, heap, served, request, response, trace,
                   ptext, presult>>

\* The state after a request with inputs `req` whose handling came to r.
Respond(req, r) ==
    /\ request' = req
    /\ response' = r.response
    /\ heap' = r.heap
    /\ trace' = r.trace
    /\ served' = [total |-> served.total + 1,
                  commands |-> served.commands
                      + (IF "action" \in DOMAIN r.response THEN 1 ELSE 0)]

\* One POST /ask, from the request to the response.
Ask ==
    /\ pc = "serving"
    /\ served.total < MaxServed
    /\ \E data \in Bodies, out \in Outcomes(client), now \in Clocks :
           Respond([body |-> data, outcome |-> out, now |-> now],
                   ask(heap, data, out, now))
    /\ UNCHANGED <<pc, credential, client, ptext, presult>>

Next == Start \/ Ask

Spec == Init /\ [][Next]_vars

\* ------------------------------------------- the rules, read off a text

\* lit (lower case) occurs in t in some letter case.
HasAt(t, lit) == \E i \in 1..Len(t) : LitAt(t, i, lit)

\* s.endswith(suf)
EndsWith(s, suf) ==
    Len(s) >= Len(suf) /\ SubSeq(s, Len(s) - Len(suf) + 1, Len(s)) = suf

\* The first of the rules 1..8 whose condition the trimmed text t meets, 9
\* when none does.
FirstRule(t) ==
    IF HasAt(t, <<"o","p","e","n"," ","y","o","u","t","u","b","e">>) THEN 1
    ELSE IF HasAt(t, <<"o","p","e","n"," ","g","o","o","g","l","e">>) THEN 2
    ELSE IF HasAt(t, <<"o","p","e","n"," ","c","h","a","t","g","p","t">>) THEN 3
    ELSE IF HasAt(t, <<"o","p","e","n"," ","w","h","a","t","s","a","p","p">>) THEN 4
    ELSE IF HasAt(t, <<"o","p","e","n"," ","c","h","r","o","m","e">>) THEN 5
    ELSE IF \E i \in 1..Len(t) : PlayCaps(t, i) # {} THEN 6
    ELSE IF /\ LitAt(t, 1, <<"p","l","a","y"," ">>)
            /\ \E j \in 6..Len(t) : ~IsSpace(t[j]) THEN 7
    ELSE IF \E i \in 1..Len(t) : RemindCaps(t, i) # {} THEN 8
    ELSE 9

\* The rule whose return statement built the value res.
Produced(res) ==
    IF res = None THEN 9
    ELSE IF res.type = "set_reminder" THEN 8
    ELSE IF res.type = "search_youtube"
    THEN (IF StartsWith(res.message, <<"P","l","a","y","i","n","g"," ">>)
          THEN 7 ELSE 6)
    ELSE IF res.message = MsgYouTube THEN 1
    ELSE IF res.message = MsgGoogle THEN 2
    ELSE IF res.message = MsgChatGPT THEN 3
    ELSE IF res.message = MsgWhatsApp THEN 4
    ELSE 5

\* The input reads "play X on youtube" for some text X that is not blank.
PlayXOnYoutube(t) ==
    /\ Len(t) >= 17
    /\ StartsWith(t, <<"p","l","a","y"," ">>)
    /\ EndsWith(t, <<" ","o","n"," ","y","o","u","t","u","b","e">>)
    /\ \E j \in 6..(Len(t) - 11) : ~IsSpace(t[j])

\* The value of a run of decimal digits, most significant first.
DecimalValue(digs) ==
    LET f[k \in 0..Len(digs)] ==
            IF k = 0 THEN 0 ELSE 10 * f[k - 1] + DigitOf[digs[k]]
    IN  f[Len(digs)]

\* ------------------------------------------------------------- the claims

\* C2: parse_command returns the result of the first of the rules 1..8, in
\* that order, whose condition the text meets, wherever the fragments lie;
\* and every input holding "open youtube" in any letter case, whatever
\* surrounds it, gives the open_url action for https://www.youtube.com/.
C2_FirstMatchWins ==
    presult # NotRun =>
        /\ Produced(presult) = FirstRule(strip(ptext))
        /\ HasAt(ptext, <<"o","p","e","n"," ","y","o","u","t","u","b","e">>)
               => presult = [type |-> "open_url",
                             url |-> "https://www.youtube.com/",
                             message |-> MsgYouTube]

\* C2's case: "open youtube" not in lower case, in a text that the
\* 'play ... on youtube' rule matches too, answered with the YouTube URL.
C2_Witness ==
    /\ presult # NotRun
    /\ presult.type = "open_url"
    /\ presult.url = "https://www.youtube.com/"
    /\ ~Contains(ptext, <<"o","p","e","n"," ","y","o","u","t","u","b","e">>)
    /\ re_search_play(ptext).matched

\* C3: on an input "play X on youtube" the result never comes from the bare
\* "play " rule, so the query never ends in the words "on youtube".
C3_NeverBarePlay ==
    (presult # NotRun /\ PlayXOnYoutube(ptext)) =>
        /\ Produced(presult) # 7
        /\ presult.type = "search_youtube"
               => ~EndsWith(presult.query, <<"o","n"," ","y","o","u","t","u","b","e">>)

C10_NonEmptyPayload ==
    presult # NotRun =>
        /\ presult.type = "search_youtube" => Len(strip(presult.query)) >= 1
        /\ presult.type = "set_reminder" => Len(strip(presult.text)) >= 1

\* ------------------------------------------------- the claims about ask

\* data.get("message", "") of the last request, before trimming.
Message == IF "message" \in DOMAIN request.body THEN request.body.message ELSE <<>>

\* A request has been handled.
Handled == served.total > 0

\* The last request had a message that is not blank and is no command.
ChatCase == Handled /\ strip(Message) # <<>> /\ FirstRule(strip(Message)) = 9

\* What the Reply Service boundary owes for the last request's outcome.
ServiceString ==
    IF request.outcome.kind = "text" THEN strip(request.outcome.text)
    ELSE Fallback

\* st is HH:MM AM or HH:MM PM on the 12-hour clock and reads the time `now`.
IsLocalTime12(st, now) ==
    /\ Len(st) = 8
    /\ \A k \in {1, 2, 4, 5} : IsDigit(st[k])
    /\ st[3] = ":" /\ st[6] = " " /\ st[7] \in {"A", "P"} /\ st[8] = "M"
    /\ DecimalValue(SubSeq(st, 1, 2)) \in 1..12
    /\ DecimalValue(SubSeq(st, 1, 2)) % 12 = now.hour % 12
    /\ DecimalValue(SubSeq(st, 4, 5)) = now.minute
    /\ (st[7] = "A") <=> (now.hour < 12)

\* C1: each request ends in exactly one of three ways: (a) blank message,
\* the retry reply, no action, no Reply Service call; (b) a command: the
\* response carries the parser's action and its message as the reply, and
\* the Reply Service is not called; (c) no command: the Reply Service is
\* called once and the response has no action.  Past the blank case a
\* response has an action or a generated reply, never both, never neither.
C1_ExactlyOne ==
    Handled =>
        LET t == strip(Message)
            a == /\ t = <<>>
                 /\ response = [status |-> 200, reply |-> RetryReply]
                 /\ trace.gemini = 0
            b == /\ t # <<>>
                 /\ FirstRule(t) # 9
                 /\ response =
                        [status |-> 200,
                         reply |-> Deref(parse_command(EmptyHeap, t)).message,
                         action |-> pop(Deref(parse_command(EmptyHeap, t)),
                                        "message")]
                 /\ trace.gemini = 0
            c == /\ t # <<>>
                 /\ FirstRule(t) = 9
                 /\ trace.gemini = 1
                 /\ DOMAIN response = {"status", "reply"}
        IN  /\ (a /\ ~b /\ ~c) \/ (~a /\ b /\ ~c) \/ (~a /\ ~b /\ c)
            /\ t # <<>> => (("action" \in DOMAIN response) <=> (trace.gemini = 0))

\* C1's case: a reminder command answered with its action and no call.
C1_Witness ==
    /\ Handled
    /\ "action" \in DOMAIN response
    /\ response.action.type = "set_reminder"
    /\ trace.gemini = 0

\* C4: a message that is empty or all whitespace gets the retry reply with
\* no action; parse_command is not run and ask_gemini_short is not called.
C4_BlankShortCircuits ==
    (/\ Handled
     /\ "message" \in DOMAIN request.body
     /\ \A i \in 1..Len(Message) : IsSpace(Message[i]))
        => /\ response = [status |-> 200, reply |-> RetryReply]
           /\ trace = [parse |-> 0, gemini |-> 0]

\* C4's case: a message of a blank and a line break, answered with the retry
\* reply.
C4_Witness ==
    /\ Handled
    /\ request.body = [message |-> <<" ","\n">>]
    /\ response.reply = RetryReply

\* C5: for a message that is no command, however generate_content ends
\* (text, an exception, a response without text), the response is a 200
\* with a reply: the trimmed text, or the fallback string on any failure.
C5_FailureNeverSurfaces ==
    ChatCase =>
        /\ response.status = 200
        /\ DOMAIN response = {"status", "reply"}
        /\ StartsWith(response.reply, ServiceString)

\* C5's case: generate_content returned a response whose text is None, and
\* the reply is the fallback string.
C5_Witness ==
    /\ ChatCase
    /\ request.outcome.kind = "none_text"
    /\ response = [status |-> 200, reply |-> Fallback]

\* C6: without the credential the process still starts, never crashing at
\* startup, and every Reply Service call then falls back to the apology.
C6_StartsWithoutKey ==
    ~credential =>
        /\ pc # "crashed"
        /\ (Handled /\ trace.gemini = 1) => StartsWith(response.reply, Fallback)

\* C7: for a message that is not blank and is no command, the reply is the
\* Reply Service string followed by the parenthetical with the local time
\* as 12-hour HH:MM AM/PM exactly when the message, in any letter case, has
\* "time" and has "?"; otherwise it is the Reply Service string alone.
C7_TimeExtra ==
    ChatCase =>
        IF /\ HasAt(Message, <<"t","i","m","e">>)
           /\ \E j \in 1..Len(Message) : Message[j] = "?"
        THEN /\ Len(response.reply) = Len(ServiceString) + 46
             /\ SubSeq(response.reply, 1, Len(ServiceString) + 36)
                    = ServiceString
                      \o <<" ","(","B","y"," ","t","h","e"," ","w","a","y",","," ","c","u","r","r","e","n","t"," ","l","o","c","a","l"," ","t","i","m","e"," ","i","s"," ">>
             /\ IsLocalTime12(SubSeq(response.reply, Len(ServiceString) + 37,
                                     Len(ServiceString) + 44), request.now)
             /\ EndsWith(response.reply, <<".",")">>)
        ELSE response.reply = ServiceString

\* C7's case: a question about the time asked at 23:59 while the service is
\* failing: the fallback string, then 11:59 PM.
C7_Witness ==
    /\ ChatCase
    /\ request.outcome.kind = "raise"
    /\ request.now.hour = 23
    /\ EndsWith(response.reply, <<"1","1",":","5","9"," ","P","M",".",")">>)

\* C8: whatever requests came before, the response is the one a fresh
\* process gives to the same message, Reply Service outcome and clock,
\* parse_command returns for every input what it returns in a fresh
\* process, and no dict outlives its request.
C8_Stateless ==
    /\ Handled =>
           response = ask(EmptyHeap, request.body, request.outcome,
                          request.now).response
    /\ \A m \in AskMessages :
           Deref(parse_command(heap, m)) = Deref(parse_command(EmptyHeap, m))
    /\ heap = EmptyHeap

\* C8's case: a second request that matched a command, after an earlier one
\* whose dict had its message popped, still answered with its action.
C8_Witness ==
    /\ served.commands >= 2
    /\ "action" \in DOMAIN response
    /\ "message" \notin DOMAIN response.action

=============================================================================
